---- MODULE Spec2Model ----
(***************************************************************************)
(* Points-Lines: interactive 2D coordinate-geometry editor.                *)
(*                                                                         *)
(* Numbers.  A float is modelled by an exact rational <<n, d>> in lowest   *)
(* terms with d > 0, extended by the IEEE-754 special values the program   *)
(* can produce by dividing by zero: <<1, 0>> is +inf, <<-1, 0>> is -inf    *)
(* and <<0, 0>> is NaN.  Rounding is not modelled; every input used below  *)
(* is a multiple of 1/128, which single precision represents exactly.      *)
(* A vec3 is a triple <<x, y, z>> of such numbers.                         *)
(***************************************************************************)
EXTENDS Integers, Sequences, FiniteSets, TLC

(* ---------------------------------------------------------------------- *)
(* float arithmetic                                                        *)
(* ---------------------------------------------------------------------- *)
Abs(n) == IF n < 0 THEN -n ELSE n

Sign(n) == IF n < 0 THEN -1 ELSE IF n > 0 THEN 1 ELSE 0

RECURSIVE GCD(_, _)
GCD(m, n) == IF n = 0 THEN m ELSE GCD(n, m % n)

\* the float with value n/d (d >= 0); d = 0 gives +-inf or NaN
Norm(n, d) ==
    IF d = 0 THEN <<Sign(n), 0>>
    ELSE LET g == GCD(Abs(n), d) IN <<n \div g, d \div g>>

R(n) == <<n, 1>>
Q(n, d) == Norm(n, d)
NaN == <<0, 0>>

IsNaN(x) == x[1] = 0 /\ x[2] = 0

Neg(x) == <<-x[1], x[2]>>

Add(x, y) ==
    IF IsNaN(x) \/ IsNaN(y) THEN NaN
    ELSE IF x[2] = 0 /\ y[2] = 0 THEN (IF x[1] = y[1] THEN x ELSE NaN)
    ELSE Norm(x[1] * y[2] + y[1] * x[2], x[2] * y[2])

Sub(x, y) == Add(x, Neg(y))

Mul(x, y) == Norm(x[1] * y[1], x[2] * y[2])

Div(x, y) ==
    IF y[1] < 0 THEN Norm(-(x[1] * y[2]), x[2] * (-y[1]))
    ELSE Norm(x[1] * y[2], x[2] * y[1])

\* operator == on floats: NaN equals nothing
Eq(x, y) == ~IsNaN(x) /\ ~IsNaN(y) /\ x = y

\* operator != on floats
Neq(x, y) == ~Eq(x, y)

\* operator < on floats: false whenever an operand is NaN
Lt(x, y) ==
    /\ ~IsNaN(x)
    /\ ~IsNaN(y)
    /\ IF x[2] = 0 /\ y[2] = 0 THEN x[1] < y[1]
       ELSE x[1] * y[2] < y[1] * x[2]

(* ---------------------------------------------------------------------- *)
(* vec3                                                                    *)
(* ---------------------------------------------------------------------- *)
vec3(x, y, z) == <<x, y, z>>

VSub(v, w) == vec3(Sub(v[1], w[1]), Sub(v[2], w[2]), Sub(v[3], w[3]))

dot(v, w) == Add(Add(Mul(v[1], w[1]), Mul(v[2], w[2])), Mul(v[3], w[3]))

cross(v, w) ==
    vec3(Sub(Mul(v[2], w[3]), Mul(v[3], w[2])),
         Sub(Mul(v[3], w[1]), Mul(v[1], w[3])),
         Sub(Mul(v[1], w[2]), Mul(v[2], w[1])))

\* length(v) is sqrtf(dot(v, v)); the model keeps its square, which orders
\* the non-negative lengths exactly as the lengths themselves are ordered
length2(v) == dot(v, v)

ZeroVec == vec3(R(0), R(0), R(0))

(* ---------------------------------------------------------------------- *)
(* class Line                                                              *)
(* ---------------------------------------------------------------------- *)
\* a default-constructed Line with static storage duration: all fields zero
ZeroLine ==
    [p1 |-> ZeroVec, p2 |-> ZeroVec, p3 |-> ZeroVec, p4 |-> ZeroVec,
     a |-> R(0), b |-> R(0), c |-> R(0), px |-> R(0), py |-> R(0)]

\* Line::Line without the equal-x special case
LineNoVertical(p1, p2) ==
    LET a == Sub(p2[2], p1[2])
        b == Sub(p1[1], p2[1])
        c == Sub(Mul(Neg(a), p1[1]), Mul(b, p1[2]))
    IN  [p1 |-> p1, p2 |-> p2,
         p3 |-> IF Neq(b, R(0))
                THEN vec3(R(-1), Div(Sub(Mul(Neg(a), R(-1)), c), b), R(1))
                ELSE vec3(p1[1], R(-1), R(1)),
         p4 |-> IF Neq(b, R(0))
                THEN vec3(R(1), Div(Sub(Mul(Neg(a), R(1)), c), b), R(1))
                ELSE vec3(p1[1], R(1), R(1)),
         a |-> a, b |-> b, c |-> c,
         px |-> Sub(p2[1], p1[1]), py |-> Sub(p2[2], p1[2])]

\* Line::Line drawing between the defining points instead of clipping
LineUnclipped(p1, p2) ==
    LET vert == Eq(p1[1], p2[1])
        a == IF vert THEN R(1) ELSE Sub(p2[2], p1[2])
        b == IF vert THEN R(0) ELSE Sub(p1[1], p2[1])
        c == IF vert THEN Neg(p1[1])
             ELSE Sub(Mul(Neg(a), p1[1]), Mul(b, p1[2]))
    IN  [p1 |-> p1, p2 |-> p2, p3 |-> p1, p4 |-> p2,
         a |-> a, b |-> b, c |-> c,
         px |-> Sub(p2[1], p1[1]), py |-> Sub(p2[2], p1[2])]

Line(p1, p2) ==
    LET vert == Eq(p1[1], p2[1])
        a == IF vert THEN R(1) ELSE Sub(p2[2], p1[2])
        b == IF vert THEN R(0) ELSE Sub(p1[1], p2[1])
        c == IF vert THEN Neg(p1[1])
             ELSE Sub(Mul(Neg(a), p1[1]), Mul(b, p1[2]))
    IN  [p1 |-> p1, p2 |-> p2,
         p3 |-> IF Neq(b, R(0))
                THEN vec3(R(-1), Div(Sub(Mul(Neg(a), R(-1)), c), b), R(1))
                ELSE vec3(p1[1], R(-1), R(1)),
         p4 |-> IF Neq(b, R(0))
                THEN vec3(R(1), Div(Sub(Mul(Neg(a), R(1)), c), b), R(1))
                ELSE vec3(p1[1], R(1), R(1)),
         a |-> a, b |-> b, c |-> c,
         px |-> Sub(p2[1], p1[1]), py |-> Sub(p2[2], p1[2])]

\* findIntersectionPoint with the operands of the y numerator exchanged
findIntersectionPointSwapped(this, line2) ==
    LET a1 == this.a
        b1 == this.b
        c1 == this.c
        a2 == line2.a
        b2 == line2.b
        c2 == line2.c
        determinant == Sub(Mul(a1, b2), Mul(a2, b1))
    IN  IF Eq(determinant, R(0)) THEN vec3(R(0), R(0), R(1))
        ELSE vec3(Div(Sub(Mul(b1, c2), Mul(b2, c1)), determinant),
                  Div(Sub(Mul(a1, c2), Mul(a2, c1)), determinant),
                  R(1))

\* findIntersectionPoint without the determinant == 0 test
findIntersectionPointUnguarded(this, line2) ==
    LET a1 == this.a
        b1 == this.b
        c1 == this.c
        a2 == line2.a
        b2 == line2.b
        c2 == line2.c
        determinant == Sub(Mul(a1, b2), Mul(a2, b1))
    IN  vec3(Div(Sub(Mul(b1, c2), Mul(b2, c1)), determinant),
             Div(Sub(Mul(a2, c1), Mul(a1, c2)), determinant),
             R(1))

findIntersectionPoint(this, line2) ==
    LET a1 == this.a
        b1 == this.b
        c1 == this.c
        a2 == line2.a
        b2 == line2.b
        c2 == line2.c
        determinant == Sub(Mul(a1, b2), Mul(a2, b1))
    IN  IF Eq(determinant, R(0)) THEN vec3(R(0), R(0), R(1))
        ELSE vec3(Div(Sub(Mul(b1, c2), Mul(b2, c1)), determinant),
                  Div(Sub(Mul(a2, c1), Mul(a1, c2)), determinant),
                  R(1))

\* move with the sign of the new constant term dropped
moveMirrored(this, clickP) ==
    LET a == this.a
        b == this.b
        newC == Add(Mul(a, clickP[1]), Mul(b, clickP[2]))
        lo == vec3(R(-1), Div(Sub(Mul(Neg(a), R(-1)), newC), b), R(1))
        hi == vec3(R(1), Div(Sub(Mul(Neg(a), R(1)), newC), b), R(1))
    IN  [this EXCEPT !.p1 = lo, !.p2 = hi, !.p3 = lo, !.p4 = hi]

move(this, clickP) ==
    LET a == this.a
        b == this.b
        newC == Sub(Mul(Neg(a), clickP[1]), Mul(b, clickP[2]))
        lo == vec3(R(-1), Div(Sub(Mul(Neg(a), R(-1)), newC), b), R(1))
        hi == vec3(R(1), Div(Sub(Mul(Neg(a), R(1)), newC), b), R(1))
    IN  [this EXCEPT !.p1 = lo, !.p2 = hi, !.p3 = lo, !.p4 = hi]

(* ---------------------------------------------------------------------- *)
(* bounds and inputs                                                       *)
(* ---------------------------------------------------------------------- *)
\* points placed by clicks are capped at MaxPlaced; MaxPoints leaves room
\* for points added by a completed Intersect gesture
MaxPlaced == 2
MaxPoints == 3
MaxLines == 1

\* a completed Intersect gesture adds its point while the registry holds
\* fewer than MaxPoints points, and one more for every stored line after
\* the first
PointCap(vtx) == MaxPoints - 1 + Len(vtx) \div 4

windowWidth == 600
windowHeight == 600

\* device pixels the pointer events are drawn from; in world coordinates
\* (-1/2,-1/2), (1/2,1/2), (0,0), (1/2,0) and (0,1/2)
Pixels == {<<300, 300>>, <<450, 300>>, <<300, 150>>}

Keys == {"p", "l", "m", "i", "x"}

\* pointer positions of motion events
MotionPixels == {<<450, 300>>}

Buttons == {"GLUT_LEFT_BUTTON", "GLUT_MIDDLE_BUTTON", "GLUT_RIGHT_BUTTON"}
States == {"GLUT_DOWN", "GLUT_UP"}

\* pointer positions of a button event: onMouse uses the position of a left
\* press only, so the other button events are drawn at one position
PointerAt(button, state) ==
    IF button = "GLUT_LEFT_BUTTON" /\ state = "GLUT_DOWN" THEN Pixels
    ELSE {<<300, 300>>}

\* values the out-of-bounds read Vtx()[-1] may deliver
Garbage == {ZeroVec, vec3(R(1), R(0), R(1))}

(* ---------------------------------------------------------------------- *)
(* state                                                                   *)
(* ---------------------------------------------------------------------- *)
VARIABLES
    points,      \* PointCollection::points.vtx
    lines,       \* LineCollection::lines.vtx, four entries per line
    firstCLick,  \* LineCollection::firstCLick
    startPoint,  \* LineCollection::startPoint
    current,     \* Key current
    l1, l2,      \* Line l1, l2
    moved,       \* Line moved
    idx,         \* int idx
    firstLine,   \* bool firstLine
    pc,          \* "run", or "crashed" after an out-of-bounds access trapped
    oob,         \* the last handler indexed the vertex vector outside [0, size)
    moveB0,      \* the last handler ran Line::move on a Line whose coefficient b is 0
    drag,        \* history: "dragging" since a left press in MoveLine mode selected a line,
                 \* "ended" since the left release that followed it, "none" before any drag
    last,        \* history: "left press", "left release" or "other button" when the event
                 \* handled last was that button event, "none" otherwise
    sel,         \* history: <<storage index of the first line, of the second line>> of the
                 \* Intersect gesture begun last, -1 where not selected yet
    tArgs,       \* harness: the arguments <<p1, p2>> tLine was constructed from
    tLine,       \* harness: the Line under test
    tOther,      \* harness: the argument line2 of the last findIntersectionPoint
    tBefore,     \* harness: <<a, b>> of tLine before the last move
    tTarget,     \* harness: the argument clickP of the last move
    tResult,     \* harness: <<tLine.findIntersectionPoint(tOther), tOther.findIntersectionPoint(tLine)>>
    tOp,         \* harness: the last operation applied to tLine
    qPos,        \* harness: the argument of the last registry query
    qEst,        \* harness: the vec3 the last searchNearestP returned
    qIdx,        \* harness: the int the last findNearestLine returned
    qOp,         \* harness: the last registry query made
    qLine,       \* harness: the argument of the last index call
    restarted,   \* harness: the call made last was a startDrawing while a start was pending
    frame,       \* the draw calls the display event issued, <<>> once an input event
                 \* was handled after it
    record       \* the records the handler or registry operation run last printed

uiVars == <<points, lines, firstCLick, startPoint, current, l1, l2, moved,
            idx, firstLine, pc, oob, moveB0, drag, last, sel>>

lineVars == <<tArgs, tLine, tOther, tBefore, tTarget, tResult, tOp>>

regVars == <<qPos, qEst, qIdx, qOp, qLine, restarted>>

outVars == <<frame, record>>

vars == <<points, lines, firstCLick, startPoint, current, l1, l2, moved,
          idx, firstLine, pc, oob, moveB0, drag, last, sel,
          tArgs, tLine, tOther, tBefore, tTarget, tResult, tOp,
          qPos, qEst, qIdx, qOp, qLine, restarted, frame, record>>

(* ---------------------------------------------------------------------- *)
(* registries                                                              *)
(* ---------------------------------------------------------------------- *)
\* vtx[i] for a 0-based storage index i
At(vtx, i) == vtx[i + 1]

\* squared Euclidean distance in the plane
dist2(pos, q) ==
    Add(Mul(Sub(pos[1], q[1]), Sub(pos[1], q[1])),
        Mul(Sub(pos[2], q[2]), Sub(pos[2], q[2])))

RECURSIVE searchLoop(_, _, _, _, _)
searchLoop(vtx, pos, i, minD, est) ==
    IF i >= Len(vtx) THEN est
    ELSE LET d == dist2(pos, At(vtx, i))
         IN  IF Lt(d, minD) THEN searchLoop(vtx, pos, i + 1, d, At(vtx, i))
             ELSE searchLoop(vtx, pos, i + 1, minD, est)

\* searchNearestP replacing est when d <= minD
RECURSIVE searchLoopLastWins(_, _, _, _, _)
searchLoopLastWins(vtx, pos, i, minD, est) ==
    IF i >= Len(vtx) THEN est
    ELSE LET d == dist2(pos, At(vtx, i))
         IN  IF ~Lt(minD, d) THEN searchLoopLastWins(vtx, pos, i + 1, d, At(vtx, i))
             ELSE searchLoopLastWins(vtx, pos, i + 1, minD, est)

searchNearestPLastWins(vtx, pos) ==
    IF Len(vtx) = 0 THEN vec3(R(0), R(0), R(1))
    ELSE searchLoopLastWins(vtx, pos, 1, dist2(pos, At(vtx, 0)), At(vtx, 0))

\* searchNearestP returning a default vec3 for the empty registry
searchNearestPOrigin(vtx, pos) ==
    IF Len(vtx) = 0 THEN vec3(R(0), R(0), R(0))
    ELSE searchLoop(vtx, pos, 1, dist2(pos, At(vtx, 0)), At(vtx, 0))

searchNearestP(vtx, pos) ==
    IF Len(vtx) = 0 THEN vec3(R(0), R(0), R(1))
    ELSE searchLoop(vtx, pos, 1, dist2(pos, At(vtx, 0)), At(vtx, 0))

\* squared distanceLine of findNearestLine for the line stored at index i
distanceLine2(vtx, i, clickP) ==
    LET firstPoint == At(vtx, i)
        secPoint == At(vtx, i + 1)
        lineVector == VSub(secPoint, firstPoint)
        pointVector == VSub(clickP, firstPoint)
    IN  Div(length2(cross(lineVector, pointVector)), length2(lineVector))

RECURSIVE nearestLoop(_, _, _, _, _)
nearestLoop(vtx, clickP, i, minDistance2, nearestLine) ==
    IF i >= Len(vtx) THEN nearestLine
    ELSE LET d == distanceLine2(vtx, i, clickP)
         IN  IF Lt(d, minDistance2) /\ Lt(d, Q(1, 10000))
             THEN nearestLoop(vtx, clickP, i + 4, d, i)
             ELSE nearestLoop(vtx, clickP, i + 4, minDistance2, nearestLine)

\* findNearestLine comparing against minDistance only
RECURSIVE nearestLoopCapOnly(_, _, _, _, _)
nearestLoopCapOnly(vtx, clickP, i, minDistance2, nearestLine) ==
    IF i >= Len(vtx) THEN nearestLine
    ELSE LET d == distanceLine2(vtx, i, clickP)
         IN  IF Lt(d, minDistance2)
             THEN nearestLoopCapOnly(vtx, clickP, i + 4, d, i)
             ELSE nearestLoopCapOnly(vtx, clickP, i + 4, minDistance2, nearestLine)

findNearestLineCapOnly(vtx, clickP) == nearestLoopCapOnly(vtx, clickP, 0, R(400), -1)

findNearestLine(vtx, clickP) == nearestLoop(vtx, clickP, 0, R(400), -1)

\* the two defining points of l, in this order, are the entries i and i + 1
SamePair(vtx, i, pa, pb) ==
    /\ Eq(At(vtx, i)[1], pa[1]) /\ Eq(At(vtx, i)[2], pa[2])
    /\ Eq(At(vtx, i + 1)[1], pb[1]) /\ Eq(At(vtx, i + 1)[2], pb[2])

RECURSIVE indexLoopOrdered(_, _, _)
\* the loop of index comparing the defining points in the stored order only
indexLoopOrdered(vtx, l, i) ==
    IF i >= Len(vtx) THEN -1
    ELSE IF SamePair(vtx, i, l.p1, l.p2) THEN i
    ELSE indexLoopOrdered(vtx, l, i + 4)

RECURSIVE indexLoop(_, _, _)
\* the loop of LineCollection::index from i on
indexLoop(vtx, l, i) ==
    IF i >= Len(vtx) THEN -1
    ELSE IF SamePair(vtx, i, l.p1, l.p2) \/ SamePair(vtx, i, l.p2, l.p1) THEN i
    ELSE indexLoop(vtx, l, i + 4)

\* index with the reversed-order comparison left out
indexOrdered(vtx, l) == indexLoopOrdered(vtx, l, 0)

\* LineCollection::index
index(vtx, l) == indexLoop(vtx, l, 0)

\* printf's conversion %3.2f: the decimal with two fractional digits nearest
\* to x, ties to the even digit; inf and nan print as such
Fmt2(x) ==
    IF x[2] = 0 THEN x
    ELSE LET n == x[1] * 100
             q == n \div x[2]
             r == n - q * x[2]
             up == 2 * r > x[2] \/ (2 * r = x[2] /\ q % 2 = 1)
         IN  Norm(IF up THEN q + 1 ELSE q, 100)

\* the line addPoint prints
pointRecord(p) == [event |-> "point_added", x |-> Fmt2(p[1]), y |-> Fmt2(p[2])]

\* addLine printing the coefficients of the normal rotated by a quarter turn
addLineRecordSwapped(l) ==
    LET a == l.a
        b == l.b
        c == Sub(Mul(Neg(a), l.p1[1]), Mul(b, l.p1[2]))
    IN  [event |-> "line_added", a |-> Fmt2(b), b |-> Fmt2(a), c |-> Fmt2(c),
         ox |-> Fmt2(l.p1[1]), oy |-> Fmt2(l.p1[2]),
         dx |-> Fmt2(l.px), dy |-> Fmt2(l.py)]

\* the lines addLine prints
addLineRecord(l) ==
    LET a == l.a
        b == l.b
        c == Sub(Mul(Neg(a), l.p1[1]), Mul(b, l.p1[2]))
    IN  [event |-> "line_added", a |-> Fmt2(a), b |-> Fmt2(b), c |-> Fmt2(c),
         ox |-> Fmt2(l.p1[1]), oy |-> Fmt2(l.p1[2]),
         dx |-> Fmt2(l.px), dy |-> Fmt2(l.py)]

\* addLine pushing the render endpoints between the defining points
addLineInterleaved(vtx, l) == vtx \o <<l.p1, l.p3, l.p2, l.p4>>

\* the four entries addLine appends
addLine(vtx, l) == vtx \o <<l.p1, l.p2, l.p3, l.p4>>

\* device pixel to world frame without the flip of the y axis
WorldNoFlip(pX, pY) ==
    vec3(Sub(Q(2 * pX, windowWidth), R(1)), Sub(Q(2 * pY, windowHeight), R(1)), R(1))

\* device pixel to world frame
World(pX, pY) ==
    vec3(Sub(Q(2 * pX, windowWidth), R(1)), Sub(R(1), Q(2 * pY, windowHeight)), R(1))

InStorage(i) == 0 <= i /\ i < Len(lines)

(* ---------------------------------------------------------------------- *)
(* event handlers                                                          *)
(* ---------------------------------------------------------------------- *)
\* the key test with 'm' and 'i' selecting each other's mode
KeyModeSwapped(key) ==
    IF key = "m" THEN "i"
    ELSE IF key = "i" THEN "m"
    ELSE IF key \in {"p", "l"} THEN key
    ELSE current

KeyMode(key) == IF key \in {"p", "l", "m", "i"} THEN key ELSE current

\* onKeyboard dropping a pending line start
onKeyboardCancels(key) ==
    /\ pc = "run"
    /\ current' = KeyMode(key)
    /\ oob' = FALSE
    /\ moveB0' = FALSE
    /\ last' = "none"
    /\ firstCLick' = FALSE
    /\ UNCHANGED <<points, lines, startPoint, l1, l2, moved, idx,
                   firstLine, pc, drag, sel>>
    /\ frame' = <<>>
    /\ record' = <<>>
    /\ UNCHANGED lineVars
    /\ UNCHANGED regVars

onKeyboard(key) ==
    /\ pc = "run"
    /\ current' = KeyMode(key)
    /\ oob' = FALSE
    /\ moveB0' = FALSE
    /\ last' = "none"
    /\ UNCHANGED <<points, lines, firstCLick, startPoint, l1, l2, moved, idx,
                   firstLine, pc, drag, sel>>
    /\ frame' = <<>>
    /\ record' = <<>>
    /\ UNCHANGED lineVars
    /\ UNCHANGED regVars

onKeyboardUp(key) ==
    /\ pc = "run"
    /\ current' = KeyMode(key)
    /\ oob' = FALSE
    /\ moveB0' = FALSE
    /\ last' = "none"
    /\ UNCHANGED <<points, lines, firstCLick, startPoint, l1, l2, moved, idx,
                   firstLine, pc, drag, sel>>
    /\ frame' = <<>>
    /\ record' = <<>>
    /\ UNCHANGED lineVars
    /\ UNCHANGED regVars

\* the motion handler storing the moved line in entries idx and idx + 1 only
onMouseMotionTwoEntries(pX, pY) ==
    /\ pc = "run"
    /\ IF idx # -1 /\ current = "m"
       THEN \E m2 \in {move(moved, World(pX, pY))} :
            /\ moved' = m2
            /\ moveB0' = Eq(moved.b, R(0))
            /\ oob' = ~(InStorage(idx) /\ InStorage(idx + 3))
            /\ IF InStorage(idx) /\ InStorage(idx + 3)
               THEN /\ lines' = [k \in 1..Len(lines) |->
                                   IF k = idx + 1 THEN m2.p1
                                   ELSE IF k = idx + 2 THEN m2.p2
                                   ELSE lines[k]]
                    /\ pc' = pc
               ELSE /\ lines' = lines
                    /\ pc' = "crashed"
       ELSE /\ UNCHANGED <<moved, lines, pc>>
            /\ moveB0' = FALSE
            /\ oob' = FALSE
    /\ last' = "none"
    /\ UNCHANGED <<points, firstCLick, startPoint, current, l1, l2, idx,
                   firstLine, drag, sel>>
    /\ frame' = <<>>
    /\ record' = <<>>
    /\ UNCHANGED lineVars
    /\ UNCHANGED regVars

onMouseMotion(pX, pY) ==
    /\ pc = "run"
    /\ IF idx # -1 /\ current = "m"
       THEN \E m2 \in {move(moved, World(pX, pY))} :
            /\ moved' = m2
            /\ moveB0' = Eq(moved.b, R(0))
            /\ oob' = ~(InStorage(idx) /\ InStorage(idx + 3))
            /\ IF InStorage(idx) /\ InStorage(idx + 3)
               THEN /\ lines' = [k \in 1..Len(lines) |->
                                   IF k = idx + 1 \/ k = idx + 3 THEN m2.p1
                                   ELSE IF k = idx + 2 \/ k = idx + 4 THEN m2.p2
                                   ELSE lines[k]]
                    /\ pc' = pc
               ELSE \* idx = 0 on the never-filled vector: a store through its
                    \* null data pointer, which traps
                    /\ lines' = lines
                    /\ pc' = "crashed"
       ELSE /\ UNCHANGED <<moved, lines, pc>>
            /\ moveB0' = FALSE
            /\ oob' = FALSE
    /\ last' = "none"
    /\ UNCHANGED <<points, firstCLick, startPoint, current, l1, l2, idx,
                   firstLine, drag, sel>>
    /\ frame' = <<>>
    /\ record' = <<>>
    /\ UNCHANGED lineVars
    /\ UNCHANGED regVars

\* the PlacePoint case skipping a position that is stored already
LeftPlacePointNoDup(state, pX, pY) ==
    /\ current = "p"
    /\ IF state = "GLUT_DOWN" /\ \A k \in 1..Len(points) : points[k] # World(pX, pY)
       THEN /\ Len(points) < MaxPlaced
            /\ points' = Append(points, World(pX, pY))
            /\ record' = <<pointRecord(World(pX, pY))>>
       ELSE /\ points' = points
            /\ record' = <<>>
    /\ oob' = FALSE
    /\ UNCHANGED <<lines, firstCLick, startPoint, l1, l2, moved, idx,
                   firstLine, pc, sel>>

\* case GLUT_LEFT_BUTTON, current == p
LeftPlacePoint(state, pX, pY) ==
    /\ current = "p"
    /\ IF state = "GLUT_DOWN"
       THEN /\ Len(points) < MaxPlaced
            /\ points' = Append(points, World(pX, pY))
            /\ record' = <<pointRecord(World(pX, pY))>>
       ELSE /\ points' = points
            /\ record' = <<>>
    /\ oob' = FALSE
    /\ UNCHANGED <<lines, firstCLick, startPoint, l1, l2, moved, idx,
                   firstLine, pc, sel>>

\* the DrawLine case finishing the line at the cursor position
LeftDrawLineAtCursor(state, pX, pY) ==
    /\ current = "l"
    /\ IF state = "GLUT_DOWN" /\ Len(points) >= 2
       THEN IF ~firstCLick
            THEN /\ firstCLick' = TRUE
                 /\ startPoint' = searchNearestP(points, World(pX, pY))
                 /\ lines' = lines
                 /\ record' = <<>>
            ELSE \E l \in {Line(startPoint, World(pX, pY))} :
                 /\ Len(lines) < 4 * MaxLines
                 /\ firstCLick' = FALSE
                 /\ startPoint' = startPoint
                 /\ lines' = addLine(lines, l)
                 /\ record' = <<addLineRecord(l)>>
       ELSE /\ UNCHANGED <<firstCLick, startPoint, lines>>
            /\ record' = <<>>
    /\ oob' = FALSE
    /\ UNCHANGED <<points, l1, l2, moved, idx, firstLine, pc, sel>>

\* the DrawLine case calling startDrawing while a start is pending
LeftDrawLineRestart(state, pX, pY) ==
    /\ current = "l"
    /\ IF state = "GLUT_DOWN" /\ Len(points) >= 2
       THEN /\ firstCLick' = TRUE
            /\ startPoint' = searchNearestP(points, World(pX, pY))
            /\ lines' = lines
            /\ record' = <<>>
       ELSE /\ UNCHANGED <<firstCLick, startPoint, lines>>
            /\ record' = <<>>
    /\ oob' = FALSE
    /\ UNCHANGED <<points, l1, l2, moved, idx, firstLine, pc, sel>>

\* the DrawLine case testing points->size() >= 1
LeftDrawLineOnePoint(state, pX, pY) ==
    /\ current = "l"
    /\ IF state = "GLUT_DOWN" /\ Len(points) >= 1
       THEN IF ~firstCLick
            THEN /\ firstCLick' = TRUE
                 /\ startPoint' = searchNearestP(points, World(pX, pY))
                 /\ lines' = lines
                 /\ record' = <<>>
            ELSE \E l \in {Line(startPoint, searchNearestP(points, World(pX, pY)))} :
                 /\ Len(lines) < 4 * MaxLines
                 /\ firstCLick' = FALSE
                 /\ startPoint' = startPoint
                 /\ lines' = addLine(lines, l)
                 /\ record' = <<addLineRecord(l)>>
       ELSE /\ UNCHANGED <<firstCLick, startPoint, lines>>
            /\ record' = <<>>
    /\ oob' = FALSE
    /\ UNCHANGED <<points, l1, l2, moved, idx, firstLine, pc, sel>>

\* case GLUT_LEFT_BUTTON, current == l
LeftDrawLine(state, pX, pY) ==
    /\ current = "l"
    /\ IF state = "GLUT_DOWN" /\ Len(points) >= 2
       THEN IF ~firstCLick
            THEN /\ firstCLick' = TRUE
                 /\ startPoint' = searchNearestP(points, World(pX, pY))
                 /\ lines' = lines
                 /\ record' = <<>>
            ELSE \E l \in {Line(startPoint, searchNearestP(points, World(pX, pY)))} :
                 /\ Len(lines) < 4 * MaxLines
                 /\ firstCLick' = FALSE
                 /\ startPoint' = startPoint
                 /\ lines' = addLine(lines, l)
                 /\ record' = <<addLineRecord(l)>>
       ELSE /\ UNCHANGED <<firstCLick, startPoint, lines>>
            /\ record' = <<>>
    /\ oob' = FALSE
    /\ UNCHANGED <<points, l1, l2, moved, idx, firstLine, pc, sel>>

\* the Intersect case keeping the first line selected after the second
LeftIntersectNoReset(state, pX, pY) ==
    /\ current = "i"
    /\ IF state = "GLUT_DOWN"
       THEN \E hit \in {findNearestLine(lines, World(pX, pY))} :
            IF hit # -1
            THEN IF ~firstLine
                 THEN /\ l1' = Line(At(lines, hit), At(lines, hit + 1))
                      /\ firstLine' = TRUE
                      /\ idx' = hit
                      /\ oob' = FALSE
                      /\ sel' = <<hit, -1>>
                      /\ record' = <<>>
                      /\ UNCHANGED <<l2, points>>
                 ELSE \E second \in {Line(At(lines, hit), At(lines, hit + 1))} :
                      /\ Len(points) < PointCap(lines)
                      /\ points' = Append(points, findIntersectionPoint(l1, second))
                      /\ record' = <<pointRecord(findIntersectionPoint(l1, second))>>
                      /\ l1' = l1
                      /\ l2' = second
                      /\ firstLine' = TRUE
                      /\ idx' = hit
                      /\ oob' = FALSE
                      /\ sel' = <<sel[1], hit>>
            ELSE /\ idx' = hit
                 /\ oob' = FALSE
                 /\ record' = <<>>
                 /\ UNCHANGED <<l1, l2, firstLine, points, sel>>
       ELSE /\ oob' = FALSE
            /\ record' = <<>>
            /\ UNCHANGED <<l1, l2, firstLine, points, idx, sel>>
    /\ UNCHANGED <<lines, firstCLick, startPoint, moved, pc>>

\* case GLUT_LEFT_BUTTON, current == i
LeftIntersect(state, pX, pY) ==
    /\ current = "i"
    /\ IF state = "GLUT_DOWN"
       THEN \E hit \in {findNearestLine(lines, World(pX, pY))} :
            IF hit # -1
            THEN IF ~firstLine
                 THEN /\ l1' = Line(At(lines, hit), At(lines, hit + 1))
                      /\ firstLine' = TRUE
                      /\ idx' = hit
                      /\ oob' = FALSE
                      /\ sel' = <<hit, -1>>
                      /\ record' = <<>>
                      /\ UNCHANGED <<l2, points>>
                 ELSE \E second \in {Line(At(lines, hit), At(lines, hit + 1))} :
                      /\ Len(points) < PointCap(lines)
                      /\ points' = Append(points, findIntersectionPoint(l1, second))
                      /\ record' = <<pointRecord(findIntersectionPoint(l1, second))>>
                      /\ l1' = Line(ZeroVec, ZeroVec)
                      /\ l2' = Line(ZeroVec, ZeroVec)
                      /\ firstLine' = FALSE
                      /\ idx' = -1
                      /\ oob' = FALSE
                      /\ sel' = <<sel[1], hit>>
            ELSE /\ idx' = hit
                 /\ oob' = FALSE
                 /\ record' = <<>>
                 /\ UNCHANGED <<l1, l2, firstLine, points, sel>>
       ELSE /\ oob' = FALSE
            /\ record' = <<>>
            /\ UNCHANGED <<l1, l2, firstLine, points, idx, sel>>
    /\ UNCHANGED <<lines, firstCLick, startPoint, moved, pc>>

\* case GLUT_LEFT_BUTTON, current == m
LeftMoveLine(state, pX, pY) ==
    /\ current = "m"
    /\ IF state = "GLUT_DOWN"
       THEN \E hit \in {findNearestLine(lines, World(pX, pY))} :
            /\ idx' = hit
            /\ oob' = ~(InStorage(hit) /\ InStorage(hit + 1))
            /\ IF InStorage(hit) /\ InStorage(hit + 1)
               THEN /\ moved' = Line(At(lines, hit), At(lines, hit + 1))
                    /\ pc' = pc
               ELSE \* hit = -1: Vtx()[-1] is read before the start of the vector,
                    \* undefined behaviour
                    IF Len(lines) = 0
                    THEN \* null data pointer: the load traps
                         /\ moved' = moved
                         /\ pc' = "crashed"
                    ELSE \* the load traps, or delivers the bytes in front of
                         \* the buffer; Vtx()[0] is the first stored entry
                         \/ /\ moved' = moved
                            /\ pc' = "crashed"
                         \/ /\ \E g \in Garbage : moved' = Line(g, At(lines, 0))
                            /\ pc' = pc
       ELSE /\ idx' = -1
            /\ moved' = Line(ZeroVec, ZeroVec)
            /\ oob' = FALSE
            /\ pc' = pc
    /\ record' = <<>>
    /\ UNCHANGED <<points, lines, firstCLick, startPoint, l1, l2, firstLine, sel>>

DragAfter(button, state, pX, pY) ==
    IF button # "GLUT_LEFT_BUTTON" THEN drag
    ELSE IF state # "GLUT_DOWN" THEN (IF drag = "dragging" THEN "ended" ELSE drag)
    ELSE IF current = "m" /\ findNearestLine(lines, World(pX, pY)) # -1 THEN "dragging"
    ELSE drag

LastAfter(button, state) ==
    IF button # "GLUT_LEFT_BUTTON" THEN "other button"
    ELSE IF state = "GLUT_DOWN" THEN "left press"
    ELSE "left release"

\* onMouse running the left-button case for every button
onMouseAnyButton(button, state, pX, pY) ==
    /\ pc = "run"
    /\ moveB0' = FALSE
    /\ drag' = DragAfter(button, state, pX, pY)
    /\ last' = LastAfter(button, state)
    /\ current' = current
    /\ \/ LeftPlacePoint(state, pX, pY)
       \/ LeftDrawLine(state, pX, pY)
       \/ LeftIntersect(state, pX, pY)
       \/ LeftMoveLine(state, pX, pY)
    /\ frame' = <<>>
    /\ UNCHANGED lineVars
    /\ UNCHANGED regVars

onMouse(button, state, pX, pY) ==
    /\ pc = "run"
    /\ moveB0' = FALSE
    /\ drag' = DragAfter(button, state, pX, pY)
    /\ last' = LastAfter(button, state)
    /\ current' = current
    /\ IF button = "GLUT_LEFT_BUTTON"
       THEN \/ LeftPlacePoint(state, pX, pY)
            \/ LeftDrawLine(state, pX, pY)
            \/ LeftIntersect(state, pX, pY)
            \/ LeftMoveLine(state, pX, pY)
       ELSE /\ oob' = FALSE
            /\ record' = <<>>
            /\ UNCHANGED <<points, lines, firstCLick, startPoint, l1, l2,
                           moved, idx, firstLine, pc, sel>>
    /\ frame' = <<>>
    /\ UNCHANGED lineVars
    /\ UNCHANGED regVars

(* ---------------------------------------------------------------------- *)
(* the program                                                             *)
(* ---------------------------------------------------------------------- *)
\* Object::Draw: the draw call glDrawArrays(type, 0, vtx.size()) with the
\* uniform color, reading the buffer updateGpu filled from vtx
Draw(type, vtx, color) ==
    [type |-> type, first |-> 0, count |-> Len(vtx), positions |-> vtx,
     color |-> color]

\* the render endpoints p3, p4 of every stored line
RenderEndpoints(vtx) ==
    [k \in 1..(2 * (Len(vtx) \div 4)) |-> vtx[4 * ((k - 1) \div 2) + 3 + ((k - 1) % 2)]]

\* a display handler sending only the render endpoints of each line
onDisplayRenderOnly ==
    /\ pc = "run"
    /\ frame' = <<Draw("GL_LINES", RenderEndpoints(lines), <<0, 1, 1>>),
                  Draw("GL_POINTS", points, <<1, 0, 0>>)>>
    /\ record' = <<>>
    /\ last' = "none"
    /\ oob' = FALSE
    /\ moveB0' = FALSE
    /\ UNCHANGED <<points, lines, firstCLick, startPoint, current, l1, l2, moved,
                   idx, firstLine, pc, drag, sel>>
    /\ UNCHANGED lineVars
    /\ UNCHANGED regVars

\* a display handler that drops a pending line start
onDisplayConsuming ==
    /\ pc = "run"
    /\ frame' = <<Draw("GL_LINES", lines, <<0, 1, 1>>),
                  Draw("GL_POINTS", points, <<1, 0, 0>>)>>
    /\ record' = <<>>
    /\ last' = "none"
    /\ oob' = FALSE
    /\ moveB0' = FALSE
    /\ firstCLick' = FALSE
    /\ UNCHANGED <<points, lines, startPoint, current, l1, l2, moved,
                   idx, firstLine, pc, drag, sel>>
    /\ UNCHANGED lineVars
    /\ UNCHANGED regVars

onDisplay ==
    /\ pc = "run"
    /\ frame' = <<Draw("GL_LINES", lines, <<0, 1, 1>>),
                  Draw("GL_POINTS", points, <<1, 0, 0>>)>>
    /\ record' = <<>>
    /\ last' = "none"
    /\ oob' = FALSE
    /\ moveB0' = FALSE
    /\ UNCHANGED <<points, lines, firstCLick, startPoint, current, l1, l2, moved,
                   idx, firstLine, pc, drag, sel>>
    /\ UNCHANGED lineVars
    /\ UNCHANGED regVars

UiInit ==
    /\ points = <<>>
    /\ lines = <<>>
    /\ firstCLick = FALSE
    /\ startPoint = ZeroVec
    /\ current = "p"
    /\ l1 = ZeroLine
    /\ l2 = ZeroLine
    /\ moved = ZeroLine
    /\ idx = 0
    /\ firstLine = FALSE
    /\ pc = "run"
    /\ oob = FALSE
    /\ moveB0 = FALSE
    /\ drag = "none"
    /\ last = "none"
    /\ sel = <<-1, -1>>

LineIdle ==
    /\ tArgs = <<ZeroVec, ZeroVec>>
    /\ tLine = ZeroLine
    /\ tOther = ZeroLine
    /\ tBefore = <<R(0), R(0)>>
    /\ tTarget = ZeroVec
    /\ tResult = <<ZeroVec, ZeroVec>>
    /\ tOp = "none"

RegIdle ==
    /\ qPos = ZeroVec
    /\ qEst = ZeroVec
    /\ qIdx = -1
    /\ qOp = "none"
    /\ qLine = ZeroLine
    /\ restarted = FALSE

OutIdle ==
    /\ frame = <<>>
    /\ record = <<>>

Init == UiInit /\ LineIdle /\ RegIdle /\ OutIdle

Next ==
    \/ \E key \in Keys : onKeyboard(key)
    \/ \E key \in Keys : onKeyboardUp(key)
    \/ \E px \in MotionPixels : onMouseMotion(px[1], px[2])
    \/ \E button \in Buttons :
       \E state \in States :
       \E px \in PointerAt(button, state) : onMouse(button, state, px[1], px[2])

Spec == Init /\ [][Next]_vars

(* ---------------------------------------------------------------------- *)
(* the program with the lines y = 0 and x = 0 drawn                        *)
(* ---------------------------------------------------------------------- *)
Origin == vec3(R(0), R(0), R(1))
OnX == vec3(Q(1, 2), R(0), R(1))
OnY == vec3(R(0), Q(1, 2), R(1))

\* the state after left presses at pixels (300,300), (450,300), (300,150)
\* in PlacePoint mode, key 'l', and left presses at (300,300), (450,300),
\* (300,300), (300,150)
CrossInit ==
    /\ points = <<Origin, OnX, OnY>>
    /\ lines = addLine(addLine(<<>>, Line(Origin, OnX)), Line(Origin, OnY))
    /\ firstCLick = FALSE
    /\ startPoint = Origin
    /\ current = "l"
    /\ l1 = ZeroLine
    /\ l2 = ZeroLine
    /\ moved = ZeroLine
    /\ idx = 0
    /\ firstLine = FALSE
    /\ pc = "run"
    /\ oob = FALSE
    /\ moveB0 = FALSE
    /\ drag = "none"
    /\ last = "left press"
    /\ sel = <<-1, -1>>

\* the scene's last event was the press that stored the second line
CrossOut ==
    /\ frame = <<>>
    /\ record = <<addLineRecord(Line(Origin, OnY))>>

InitCross == CrossInit /\ LineIdle /\ RegIdle /\ CrossOut

\* pointer positions of a left press: on both lines, on y = 0 only, on
\* x = 0 only, and on neither
CrossPixels == {<<300, 300>>, <<450, 300>>, <<300, 150>>, <<450, 150>>}

CrossPointerAt(button, state) ==
    IF button = "GLUT_LEFT_BUTTON" /\ state = "GLUT_DOWN" THEN CrossPixels
    ELSE {<<300, 300>>}

NextCross ==
    \/ \E key \in Keys : onKeyboard(key)
    \/ \E key \in Keys : onKeyboardUp(key)
    \/ \E px \in MotionPixels : onMouseMotion(px[1], px[2])
    \/ \E button \in Buttons :
       \E state \in States :
       \E px \in CrossPointerAt(button, state) : onMouse(button, state, px[1], px[2])

SpecCross == InitCross /\ [][NextCross]_vars

\* Output: the UI from the initial state with display events, over cursor
\* positions that give the line through (-0.5,-0.5) and (0.5,0.5) and lines
\* with coefficients of more than two decimals.
OutPixels == {<<150, 450>>, <<450, 150>>, <<315, 300>>, <<300, 225>>}

OutKeys == {"p", "l", "m"}

OutMotionPixels == {<<450, 150>>}

OutPointerAt(state) ==
    IF state = "GLUT_DOWN" THEN OutPixels ELSE {<<300, 300>>}

NextOut ==
    \/ onDisplay
    \/ \E key \in OutKeys : onKeyboard(key)
    \/ \E key \in OutKeys : onKeyboardUp(key)
    \/ \E px \in OutMotionPixels : onMouseMotion(px[1], px[2])
    \/ \E state \in States :
       \E px \in OutPointerAt(state) : onMouse("GLUT_LEFT_BUTTON", state, px[1], px[2])

SpecOut == Init /\ [][NextOut]_vars

\* Dragging in the same scene: the mode keys of MoveLine and Intersect, the
\* left button on the two lines, and motion events at positions off both
\* lines.
DragKeys == {"m", "i"}

DragPixels == {<<300, 300>>, <<450, 300>>, <<300, 150>>}

DragMotionPixels == {<<450, 150>>, <<360, 210>>}

DragPointerAt(state) ==
    IF state = "GLUT_DOWN" THEN DragPixels ELSE {<<300, 300>>}

NextDrag ==
    \/ \E key \in DragKeys : onKeyboard(key)
    \/ \E key \in DragKeys : onKeyboardUp(key)
    \/ \E px \in DragMotionPixels : onMouseMotion(px[1], px[2])
    \/ \E state \in States :
       \E px \in DragPointerAt(state) : onMouse("GLUT_LEFT_BUTTON", state, px[1], px[2])

SpecDrag == InitCross /\ [][NextDrag]_vars

(* ---------------------------------------------------------------------- *)
(* the Line operations on their own                                        *)
(* ---------------------------------------------------------------------- *)
\* world points the Line operations are applied to
GridPts ==
    {vec3(Q(-1, 2), Q(-1, 2), R(1)), vec3(Q(1, 2), Q(1, 2), R(1)),
     vec3(R(0), R(0), R(1)), vec3(Q(1, 2), R(0), R(1)),
     vec3(R(0), Q(1, 2), R(1)), vec3(Q(-1, 2), Q(1, 2), R(1))}

TConstruct(p1, p2) ==
    /\ tOp = "none"
    /\ tArgs' = <<p1, p2>>
    /\ tLine' = Line(p1, p2)
    /\ tOp' = "Construct"
    /\ tOther' = ZeroLine
    /\ tBefore' = <<R(0), R(0)>>
    /\ tTarget' = ZeroVec
    /\ tResult' = <<ZeroVec, ZeroVec>>
    /\ UNCHANGED uiVars
    /\ UNCHANGED outVars
    /\ UNCHANGED regVars

TMove(clickP) ==
    /\ tOp # "none"
    /\ tLine' = move(tLine, clickP)
    /\ tOp' = "move"
    /\ tBefore' = <<tLine.a, tLine.b>>
    /\ tTarget' = clickP
    /\ tOther' = ZeroLine
    /\ tResult' = <<ZeroVec, ZeroVec>>
    /\ UNCHANGED tArgs
    /\ UNCHANGED uiVars
    /\ UNCHANGED outVars
    /\ UNCHANGED regVars

TIntersect(p1, p2) ==
    /\ tOp \in {"Construct", "move"}
    /\ tOther' = Line(p1, p2)
    /\ tResult' = <<findIntersectionPoint(tLine, Line(p1, p2)),
                    findIntersectionPoint(Line(p1, p2), tLine)>>
    /\ tOp' = "findIntersectionPoint"
    /\ UNCHANGED <<tArgs, tLine, tBefore, tTarget>>
    /\ UNCHANGED uiVars
    /\ UNCHANGED outVars
    /\ UNCHANGED regVars

NextLine ==
    \/ \E p1 \in GridPts : \E p2 \in GridPts : TConstruct(p1, p2)
    \/ \E clickP \in GridPts : TMove(clickP)
    \/ \E p1 \in GridPts : \E p2 \in GridPts : TIntersect(p1, p2)

SpecLine == Init /\ [][NextLine]_vars

(* ---------------------------------------------------------------------- *)
(* the registry queries on their own                                       *)
(* ---------------------------------------------------------------------- *)
MaxRegPoints == 3
MaxRegLines == 2

\* world points the registries are filled from
RegPts ==
    {vec3(R(0), R(0), R(1)), vec3(Q(1, 2), R(0), R(1)),
     vec3(R(0), Q(1, 2), R(1)), vec3(Q(1, 2), Q(1, 2), R(1))}

\* world positions the registries are queried at: a stored point, positions
\* 1/128 (less than 0.01) off one axis and off both axes, the centre of
\* RegPts, and a position more than 0.08 away from every line through two
\* of RegPts
QueryPts ==
    {vec3(R(0), R(0), R(1)), vec3(Q(1, 128), R(0), R(1)),
     vec3(Q(1, 128), Q(1, 128), R(1)), vec3(Q(1, 4), Q(1, 4), R(1)),
     vec3(Q(1, 4), Q(1, 8), R(1))}

\* PointCollection::addPoint
RAddPoint(p) ==
    /\ qOp = "none"
    /\ Len(lines) = 0
    /\ Len(points) < MaxRegPoints
    /\ points' = Append(points, p)
    /\ UNCHANGED <<lines, firstCLick, startPoint, current, l1, l2, moved,
                   idx, firstLine, pc, oob, moveB0, drag, last, sel>>
    /\ record' = <<pointRecord(p)>>
    /\ frame' = frame
    /\ UNCHANGED lineVars
    /\ UNCHANGED regVars

\* LineCollection::addLine(Line(p1, p2))
RAddLine(p1, p2) ==
    /\ qOp = "none"
    /\ Len(points) = 0
    /\ Len(lines) < 4 * MaxRegLines
    /\ lines' = addLine(lines, Line(p1, p2))
    /\ record' = <<addLineRecord(Line(p1, p2))>>
    /\ frame' = frame
    /\ UNCHANGED <<points, firstCLick, startPoint, current, l1, l2, moved,
                   idx, firstLine, pc, oob, moveB0, drag, last, sel>>
    /\ UNCHANGED lineVars
    /\ UNCHANGED regVars

RSearchNearestP(pos) ==
    /\ qOp = "none"
    /\ Len(lines) = 0
    /\ qOp' = "searchNearestP"
    /\ qPos' = pos
    /\ qEst' = searchNearestP(points, pos)
    /\ qIdx' = qIdx
    /\ UNCHANGED <<qLine, restarted>>
    /\ UNCHANGED uiVars
    /\ UNCHANGED outVars
    /\ UNCHANGED lineVars

RFindNearestLine(clickP) ==
    /\ qOp = "none"
    /\ Len(points) = 0
    /\ qOp' = "findNearestLine"
    /\ qPos' = clickP
    /\ qIdx' = findNearestLine(lines, clickP)
    /\ qEst' = qEst
    /\ UNCHANGED <<qLine, restarted>>
    /\ UNCHANGED uiVars
    /\ UNCHANGED outVars
    /\ UNCHANGED lineVars

\* LineCollection::index called with Line(p1, p2)
RIndex(p1, p2) ==
    /\ qOp = "none"
    /\ Len(points) = 0
    /\ qOp' = "index"
    /\ qLine' = Line(p1, p2)
    /\ qIdx' = index(lines, Line(p1, p2))
    /\ UNCHANGED <<qPos, qEst, restarted>>
    /\ UNCHANGED uiVars
    /\ UNCHANGED outVars
    /\ UNCHANGED lineVars

NextReg ==
    \/ \E p \in RegPts : RAddPoint(p)
    \/ \E p1 \in RegPts : \E p2 \in RegPts : RAddLine(p1, p2)
    \/ \E pos \in QueryPts : RSearchNearestP(pos)
    \/ \E clickP \in QueryPts : RFindNearestLine(clickP)
    \/ \E p1 \in RegPts : \E p2 \in RegPts : RIndex(p1, p2)

SpecReg == Init /\ [][NextReg]_vars

\* The drawing calls of LineCollection made directly, in any order.
\* startDrawing keeping the start that is pending
RStartDrawingKeepsFirst(q) ==
    /\ firstCLick' = TRUE
    /\ startPoint' = IF firstCLick THEN startPoint ELSE q
    /\ restarted' = firstCLick
    /\ qOp' = "startDrawing"
    /\ qPos' = q
    /\ record' = <<>>
    /\ UNCHANGED <<points, lines, current, l1, l2, moved, idx, firstLine,
                   pc, oob, moveB0, drag, last, sel>>
    /\ UNCHANGED <<qEst, qIdx, qLine, frame>>
    /\ UNCHANGED lineVars

\* LineCollection::startDrawing
RStartDrawing(q) ==
    /\ firstCLick' = TRUE
    /\ startPoint' = q
    /\ restarted' = firstCLick
    /\ qOp' = "startDrawing"
    /\ qPos' = q
    /\ record' = <<>>
    /\ UNCHANGED <<points, lines, current, l1, l2, moved, idx, firstLine,
                   pc, oob, moveB0, drag, last, sel>>
    /\ UNCHANGED <<qEst, qIdx, qLine, frame>>
    /\ UNCHANGED lineVars

\* LineCollection::finishDrawing
RFinishDrawing(r) ==
    /\ Len(lines) < 4 * MaxRegLines
    /\ firstCLick' = FALSE
    /\ lines' = addLine(lines, Line(startPoint, r))
    /\ record' = <<addLineRecord(Line(startPoint, r))>>
    /\ restarted' = FALSE
    /\ qOp' = "finishDrawing"
    /\ qPos' = r
    /\ UNCHANGED <<points, startPoint, current, l1, l2, moved, idx, firstLine,
                   pc, oob, moveB0, drag, last, sel>>
    /\ UNCHANGED <<qEst, qIdx, qLine, frame>>
    /\ UNCHANGED lineVars

NextColl ==
    \/ \E q \in RegPts : RStartDrawing(q)
    \/ \E r \in RegPts : RFinishDrawing(r)

SpecColl == Init /\ [][NextColl]_vars

(* ---------------------------------------------------------------------- *)
(* properties                                                              *)
(* ---------------------------------------------------------------------- *)
\* a*x + b*y + c == 0 for the Line's own coefficients
OnLine(l, p) == Eq(Add(Add(Mul(l.a, p[1]), Mul(l.b, p[2])), l.c), R(0))

\* a1*b2 - a2*b1
Det(l, m) == Sub(Mul(l.a, m.b), Mul(m.a, l.b))

\* a*x + b*y
Lhs(l, p) == Add(Mul(l.a, p[1]), Mul(l.b, p[2]))

AnyMotion == \E px \in MotionPixels : onMouseMotion(px[1], px[2])

AnyLeft(state) ==
    \E px \in PointerAt("GLUT_LEFT_BUTTON", state) :
        onMouse("GLUT_LEFT_BUTTON", state, px[1], px[2])

\* C1: releasing the left button ends a drag: once a drag (begun by a left
\* press in MoveLine mode that selected a line) has been followed by a left
\* release, in whatever mode, and no left press in MoveLine mode has selected
\* a line since, a pointer-motion event leaves every stored line position
\* unchanged.
C1_ReleaseEndsDrag ==
    [][(drag = "ended" /\ AnyMotion) => lines' = lines]_vars

\* C2: no left press or release handled by onMouse indexes line storage
\* outside 0 <= i, i + 1 < length; in particular not after findNearestLine
\* returned -1.
C2_MouseAccessInRange ==
    [][(\E state \in States : AnyLeft(state)) => oob' = FALSE]_vars

\* C3: in Intersect mode, completing the gesture with two lines that have no
\* single intersection (determinant 0: parallel, coincident or the same line
\* twice) adds no point to the point registry.
C3_NoPointWithoutIntersection ==
    [][\A px \in Pixels :
         LET hit == findNearestLine(lines, World(px[1], px[2])) IN
         (/\ onMouse("GLUT_LEFT_BUTTON", "GLUT_DOWN", px[1], px[2])
          /\ current = "i"
          /\ firstLine
          /\ hit # -1
          /\ Eq(Det(l1, Line(At(lines, hit), At(lines, hit + 1))), R(0)))
         => points' = points]_vars

\* C4: after Construct and after every move the render endpoints p3 and p4
\* satisfy a*x + b*y + c = 0 for the Line's own coefficients, and after
\* move(target) the stored c equals -a*target.x - b*target.y.
C4_EndpointsOnOwnLine ==
    tOp \in {"Construct", "move"} =>
        /\ OnLine(tLine, tLine.p3)
        /\ OnLine(tLine, tLine.p4)
        /\ tOp = "move" =>
              Eq(tLine.c, Sub(Mul(Neg(tLine.a), tTarget[1]), Mul(tLine.b, tTarget[2])))

\* C5: move(target) leaves a and b unchanged and puts both defining points
\* on the line a*x + b*y = a*target.x + b*target.y, for every constructed Line.
C5_MoveKeepsDirectionThroughTarget ==
    tOp = "move" =>
        /\ tLine.a = tBefore[1]
        /\ tLine.b = tBefore[2]
        /\ Eq(Lhs(tLine, tLine.p1), Lhs(tLine, tTarget))
        /\ Eq(Lhs(tLine, tLine.p2), Lhs(tLine, tTarget))

\* C6: in no state reachable by key, button and motion events is Line::move
\* executed on a Line with b = 0 that the constructor built from two points
\* with equal x-coordinate (a = 1, b = 0).
C6_NoMoveWithZeroB == ~(moveB0 /\ Eq(moved.a, R(1)))

\* C7: for lines with a1*b2 - a2*b1 # 0, findIntersectionPoint returns
\* ((b1*c2 - b2*c1)/det, (a2*c1 - a1*c2)/det, 1), that point satisfies both
\* implicit equations, and exchanging receiver and argument gives the same point.
C7_IntersectionSolvesBoth ==
    (tOp = "findIntersectionPoint" /\ Neq(Det(tLine, tOther), R(0))) =>
        LET P == tResult[1]
            det == Det(tLine, tOther)
        IN  /\ P = vec3(Div(Sub(Mul(tLine.b, tOther.c), Mul(tOther.b, tLine.c)), det),
                        Div(Sub(Mul(tOther.a, tLine.c), Mul(tLine.a, tOther.c)), det),
                        R(1))
            /\ OnLine(tLine, P)
            /\ OnLine(tOther, P)
            /\ tResult[2] = P

C7_Witness ==
    /\ tOp = "findIntersectionPoint"
    /\ Neq(Det(tLine, tOther), R(0))
    /\ tResult[1] # vec3(R(0), R(0), R(1))
    /\ Neq(tLine.b, R(0))
    /\ Eq(tOther.b, R(0))

\* the lines y = 0 and x = 0, which cross at the origin
XAxis == Line(vec3(R(0), R(0), R(1)), vec3(Q(1, 2), R(0), R(1)))
YAxis == Line(vec3(R(0), R(0), R(1)), vec3(R(0), Q(1, 2), R(1)))

\* C8: when a1*b2 - a2*b1 = 0 findIntersectionPoint returns the sentinel
\* (0,0,1), the very point it returns for two lines crossing at the origin.
C8_ParallelGivesSentinel ==
    (tOp = "findIntersectionPoint" /\ Eq(Det(tLine, tOther), R(0))) =>
        /\ tResult[1] = vec3(R(0), R(0), R(1))
        /\ tResult[2] = vec3(R(0), R(0), R(1))
        /\ Neq(Det(XAxis, YAxis), R(0))
        /\ tResult[1] = findIntersectionPoint(XAxis, YAxis)

C8_Witness ==
    /\ tOp = "findIntersectionPoint"
    /\ Eq(Det(tLine, tOther), R(0))
    /\ Neq(tLine.b, R(0))
    /\ Neq(tLine.c, tOther.c)
    /\ ~OnLine(tLine, vec3(R(0), R(0), R(1)))
    /\ tResult[1] = vec3(R(0), R(0), R(1))

\* C9: Construct(p1, p2) sets (a, b, c) to (1, 0, -p1.x) when p1.x = p2.x and
\* to (p2.y - p1.y, p1.x - p2.x, -a*p1.x - b*p1.y) otherwise; the direction is
\* p2 - p1 and both defining points satisfy a*x + b*y + c = 0.
C9_ConstructCoefficients ==
    tOp = "Construct" =>
        LET p1 == tArgs[1]
            p2 == tArgs[2]
        IN  /\ IF Eq(p1[1], p2[1])
               THEN /\ tLine.a = R(1)
                    /\ tLine.b = R(0)
                    /\ tLine.c = Neg(p1[1])
               ELSE /\ tLine.a = Sub(p2[2], p1[2])
                    /\ tLine.b = Sub(p1[1], p2[1])
                    /\ tLine.c = Sub(Mul(Neg(tLine.a), p1[1]), Mul(tLine.b, p1[2]))
            /\ tLine.px = Sub(p2[1], p1[1])
            /\ tLine.py = Sub(p2[2], p1[2])
            /\ OnLine(tLine, p1)
            /\ OnLine(tLine, p2)

C9_Witness ==
    /\ tOp = "Construct"
    /\ Eq(tArgs[1][1], tArgs[2][1])
    /\ tArgs[1] # tArgs[2]
    /\ Neq(tArgs[1][1], R(0))
    /\ Neq(tArgs[2][2], tArgs[1][2])

\* C10: Construct(p1, p2) puts the render endpoints at x = -1 and x = +1 on
\* the line when b # 0, and at (p1.x, -1, 1) and (p1.x, +1, 1) when b = 0.
C10_RenderEndpointsSpanFrame ==
    tOp = "Construct" =>
        IF Neq(tLine.b, R(0))
        THEN /\ tLine.p3[1] = R(-1)
             /\ tLine.p4[1] = R(1)
             /\ tLine.p3[3] = R(1)
             /\ tLine.p4[3] = R(1)
             /\ OnLine(tLine, tLine.p3)
             /\ OnLine(tLine, tLine.p4)
        ELSE /\ tLine.p3 = vec3(tArgs[1][1], R(-1), R(1))
             /\ tLine.p4 = vec3(tArgs[1][1], R(1), R(1))

C10_Witness ==
    /\ tOp = "Construct"
    /\ Neq(tLine.b, R(0))
    /\ Neq(tLine.a, R(0))
    /\ tLine.p3 # tArgs[1]
    /\ tLine.p4 # tArgs[2]
    /\ tLine.p3[1] = R(-1)

\* squared Euclidean distance between two positions of the plane
SqDist(p, q) ==
    LET dx == Sub(p[1], q[1])
        dy == Sub(p[2], q[2])
    IN  Add(Mul(dx, dx), Mul(dy, dy))

\* squared perpendicular distance from X to the infinite line through P and
\* Q (P # Q), by the normal form of the line
PerpDist2(P, Q0, X) ==
    LET nx == Sub(Q0[2], P[2])
        ny == Sub(P[1], Q0[1])
        e == Add(Mul(nx, Sub(X[1], P[1])), Mul(ny, Sub(X[2], P[2])))
    IN  Div(Mul(e, e), Add(Mul(nx, nx), Mul(ny, ny)))

\* storage indices of the stored lines whose two defining points differ
ProperLines ==
    {i \in 0..(Len(lines) - 1) :
        /\ i % 4 = 0
        /\ <<At(lines, i)[1], At(lines, i)[2]>> # <<At(lines, i + 1)[1], At(lines, i + 1)[2]>>}

LineDist2(i) == PerpDist2(At(lines, i), At(lines, i + 1), qPos)

\* the stored lines strictly nearer than 0.01 to the query position
NearLines == {i \in ProperLines : Lt(LineDist2(i), Q(1, 10000))}

\* C11: findNearestLine(clickPos) returns the storage index of the line with
\* the smallest perpendicular distance from clickPos among the stored lines
\* whose distance is strictly below 0.01, the one stored first among lines at
\* equal minimal distance, and -1 when every stored line is at distance 0.01
\* or more.
C11_NearestLineWithinThreshold ==
    qOp = "findNearestLine" =>
        IF NearLines = {} THEN qIdx = -1
        ELSE /\ qIdx \in NearLines
             /\ \A j \in NearLines :
                    /\ ~Lt(LineDist2(j), LineDist2(qIdx))
                    /\ Eq(LineDist2(j), LineDist2(qIdx)) => qIdx <= j

C11_Witness ==
    /\ qOp = "findNearestLine"
    /\ Len(lines) = 8
    /\ qIdx = 4
    /\ 0 \in NearLines
    /\ Lt(LineDist2(4), LineDist2(0))

\* C12: on a non-empty point registry searchNearestP(pos) returns a stored
\* point at minimal Euclidean distance from pos, the earliest-inserted one
\* among equally near points; queried at the coordinates of a stored point
\* it returns a point with exactly those coordinates.
C12_NearestPointIsFirstMinimum ==
    (qOp = "searchNearestP" /\ Len(points) > 0) =>
        /\ \E k \in 1..Len(points) :
              /\ qEst = points[k]
              /\ \A j \in 1..Len(points) :
                     ~Lt(SqDist(qPos, points[j]), SqDist(qPos, points[k]))
              /\ \A j \in 1..(k - 1) :
                     Lt(SqDist(qPos, points[k]), SqDist(qPos, points[j]))
        /\ (\E j \in 1..Len(points) :
                points[j][1] = qPos[1] /\ points[j][2] = qPos[2])
              => (qEst[1] = qPos[1] /\ qEst[2] = qPos[2])

C12_Witness ==
    /\ qOp = "searchNearestP"
    /\ Len(points) = 3
    /\ qEst = points[2]
    /\ points[3] # points[2]
    /\ Eq(SqDist(qPos, points[3]), SqDist(qPos, points[2]))
    /\ Lt(SqDist(qPos, points[2]), SqDist(qPos, points[1]))

\* C13: on an empty point registry searchNearestP(pos) returns the sentinel
\* (0,0,1), and the registry is still empty afterwards.
C13_EmptyRegistryGivesSentinel ==
    (qOp = "searchNearestP" /\ Len(points) = 0) =>
        /\ qEst = vec3(R(0), R(0), R(1))
        /\ points = <<>>

C13_Witness ==
    /\ qOp = "searchNearestP"
    /\ points = <<>>
    /\ qPos = vec3(Q(1, 4), Q(1, 8), R(1))
    /\ qEst = vec3(R(0), R(0), R(1))

\* the variables of the program, without pc and the history variables
Program ==
    <<points, lines, firstCLick, startPoint, current, l1, l2, moved, idx, firstLine>>

LeftPress(px) == onMouse("GLUT_LEFT_BUTTON", "GLUT_DOWN", px[1], px[2])

LeftRelease ==
    \E px \in PointerAt("GLUT_LEFT_BUTTON", "GLUT_UP") :
        onMouse("GLUT_LEFT_BUTTON", "GLUT_UP", px[1], px[2])

AnyKey == \E key \in Keys : onKeyboard(key) \/ onKeyboardUp(key)

\* the four storage entries of the line Construct(p1, p2)
Entries(p1, p2) ==
    LET ln == Line(p1, p2) IN <<ln.p1, ln.p2, ln.p3, ln.p4>>

\* C14: with at least 2 points stored, a left press in DrawLine mode with no
\* pending start sets the pending flag and records the stored point nearest
\* to the cursor as start without adding a line; a left press in DrawLine
\* mode with a start pending appends exactly one line Construct(pendingStart,
\* nearest stored point to the cursor) and clears the pending flag.
C14_DrawLineTwoClicks ==
    [][\A px \in Pixels :
         (current = "l" /\ Len(points) >= 2 /\ last' = "left press" /\ LeftPress(px)) =>
             LET near == searchNearestP(points, World(px[1], px[2])) IN
             /\ \E k \in 1..Len(points) : near = points[k]
             /\ IF ~firstCLick
                THEN /\ firstCLick'
                     /\ startPoint' = near
                     /\ lines' = lines
                ELSE /\ ~firstCLick'
                     /\ lines' = lines \o Entries(startPoint, near)
                     /\ Len(lines') = Len(lines) + 4]_vars

C14_Witness ==
    /\ last = "left press"
    /\ current = "l"
    /\ ~firstCLick
    /\ Len(points) = 2
    /\ lines = Entries(points[1], points[2])
    /\ points[1] # points[2]
    /\ startPoint = points[1]

\* C15: with fewer than 2 points in the point registry a left press in
\* DrawLine mode changes nothing: no pending start is recorded, no line is
\* added, and the registries are unchanged.
C15_DrawLineNeedsTwoPoints ==
    [][\A px \in Pixels :
         (current = "l" /\ Len(points) < 2 /\ last' = "left press" /\ LeftPress(px)) =>
             UNCHANGED Program]_vars

C15_Witness ==
    /\ last = "left press"
    /\ current = "l"
    /\ Len(points) = 1
    /\ ~firstCLick
    /\ startPoint = ZeroVec
    /\ lines = <<>>

\* the line has the equation y = 0 / x = 0
IsXAxis(ln) == Eq(ln.a, R(0)) /\ Neq(ln.b, R(0)) /\ Eq(ln.c, R(0))
IsYAxis(ln) == Neq(ln.a, R(0)) /\ Eq(ln.b, R(0)) /\ Eq(ln.c, R(0))

C17_PlacePointAtCursor ==
    [][/\ \A px \in Pixels :
            (current = "p" /\ last' = "left press" /\ LeftPress(px)) =>
                /\ points' = Append(points,
                                vec3(Sub(Q(2 * px[1], 600), R(1)),
                                     Sub(R(1), Q(2 * px[2], 600)), R(1)))
                /\ UNCHANGED <<lines, firstCLick, startPoint, current, l1, l2,
                               moved, idx, firstLine>>
       /\ (current = "p" /\ last' = "left release" /\ LeftRelease) =>
              UNCHANGED Program]_vars

C17_Witness ==
    /\ last = "left press"
    /\ current = "p"
    /\ Len(points) = 2
    /\ points[2] = vec3(R(0), Q(1, 2), R(1))
    /\ points[1] = vec3(Q(1, 2), R(0), R(1))

OtherButton ==
    \E button \in {"GLUT_MIDDLE_BUTTON", "GLUT_RIGHT_BUTTON"} :
    \E state \in States :
    \E px \in PointerAt(button, state) : onMouse(button, state, px[1], px[2])

\* C18: middle-button and right-button press and release events, in every
\* mode and every gesture state, leave the point registry, the line storage,
\* the mode, the DrawLine pending state, the Intersect first selection and
\* the active drag line unchanged.
C18_OtherButtonsChangeNothing ==
    [][(last' = "other button" /\ OtherButton) => UNCHANGED Program]_vars

C18_Witness ==
    /\ last = "other button"
    /\ current = "m"
    /\ drag = "dragging"
    /\ idx = 0
    /\ Len(lines) = 4
    /\ firstCLick

\* C19: a mode-select key event changes only the current mode; the DrawLine
\* pending flag and start point change only by a left press in DrawLine mode
\* and the Intersect first-selection flag and first line only by a left press
\* in Intersect mode, so the click that completes a gesture after the mode was
\* left and entered again uses the start point or first line remembered
\* before.
C19_ModeSwitchKeepsGesture ==
    [][/\ (last' = "none" /\ AnyKey) =>
              UNCHANGED <<points, lines, firstCLick, startPoint, l1, l2,
                          moved, idx, firstLine>>
       /\ (last' # "left press" \/ current # "l") => UNCHANGED <<firstCLick, startPoint>>
       /\ (last' # "left press" \/ current # "i") => UNCHANGED <<firstLine, l1>>
       /\ \A px \in Pixels :
            (current = "l" /\ firstCLick /\ last' = "left press" /\ LeftPress(px)) =>
                lines' = lines \o Entries(startPoint,
                                          searchNearestP(points, World(px[1], px[2])))]_vars

C19_Witness ==
    /\ last = "none"
    /\ current = "i"
    /\ firstCLick
    /\ firstLine
    /\ startPoint = points[2]
    /\ l1 = Line(lines[1], lines[2])

ModeOf(key, mode) ==
    CASE key = "p" -> "p"
      [] key = "l" -> "l"
      [] key = "m" -> "m"
      [] key = "i" -> "i"
      [] OTHER -> mode

\* C20: the mode is always one of PlacePoint, DrawLine, MoveLine, Intersect;
\* it is PlacePoint initially; a key press or key release of 'p', 'l', 'm',
\* 'i' sets it to the mode of that key whatever gesture is in progress; any
\* other key and every pointer event leave the mode unchanged.
C20_ModeFollowsKeys ==
    /\ current = "p"
    /\ [](current \in {"p", "l", "m", "i"})
    /\ [][/\ \A key \in Keys :
               (onKeyboard(key) \/ onKeyboardUp(key)) => current' = ModeOf(key, current)
          /\ (current' # current) => AnyKey]_vars

C20_Witness ==
    /\ last = "none"
    /\ current = "p"
    /\ firstCLick
    /\ firstLine
    /\ drag = "ended"

Layout(vtx, i) ==
    \/ At(vtx, i + 2) = At(vtx, i) /\ At(vtx, i + 3) = At(vtx, i + 1)
    \/ /\ At(vtx, i + 2) = Line(At(vtx, i), At(vtx, i + 1)).p3
       /\ At(vtx, i + 3) = Line(At(vtx, i), At(vtx, i + 1)).p4

\* C22: in every reachable state the length of the line storage is a
\* multiple of 4 and each group of 4 consecutive entries holds one line in
\* the order [p1, p2, p3, p4]; the length grows by exactly 4 on each
\* finishDrawing and on no other operation, and it never shrinks.
C22_LineStorageLayout ==
    /\ [](/\ Len(lines) % 4 = 0
          /\ \A i \in 0..(Len(lines) - 1) : (i % 4 = 0) => Layout(lines, i))
    /\ [][/\ \/ Len(lines') = Len(lines)
              \/ /\ Len(lines') = Len(lines) + 4
                 /\ SubSeq(lines', 1, Len(lines)) = lines
                 /\ current = "l"
                 /\ firstCLick
                 /\ last' = "left press"
           /\ \A px \in Pixels :
                (current = "l" /\ firstCLick /\ last' = "left press" /\ LeftPress(px)) =>
                    Len(lines') = Len(lines) + 4]_vars

C22_Witness ==
    /\ Len(lines) = 4
    /\ lines[3] = lines[1]
    /\ lines[4] = lines[2]
    /\ lines[1] = vec3(R(-1), R(0), R(1))
    /\ lines[2] = vec3(R(1), R(0), R(1))
    /\ drag = "ended"

\* C26: a motion event in MoveLine mode that no left press or release in
\* MoveLine mode preceded (the drag line `moved` is still as initialised)
\* accesses no storage entry out of range and changes no state.
C26_NoDragInitially ==
    [][(moved = ZeroLine /\ current = "m" /\ last' = "none" /\ AnyMotion) =>
          (UNCHANGED Program /\ pc' = pc /\ oob' = FALSE)]_vars

\* C27: after a left press in Intersect mode selected a first line, and
\* while no left press in MoveLine mode has ever selected a line, a motion
\* event in MoveLine mode leaves the line storage unchanged.
C27_SelectionIsNotDrag ==
    [][(/\ firstLine
        /\ drag = "none"
        /\ sel[1] # -1
        /\ current = "m"
        /\ last' = "none"
        /\ AnyMotion) => lines' = lines]_vars

\* C30: whenever the DrawLine pending flag is set the point registry holds
\* at least 2 points and the remembered start equals a stored point; the flag
\* changes only on a left press in DrawLine mode, and the start point is
\* assigned only while no start is pending.
C30_PendingStartIsStoredPoint ==
    /\ [](firstCLick =>
            /\ Len(points) >= 2
            /\ \E k \in 1..Len(points) : startPoint = points[k])
    /\ [][/\ (firstCLick' # firstCLick) => (current = "l" /\ last' = "left press")
          /\ (startPoint' # startPoint) => (~firstCLick /\ firstCLick')
          /\ \A px \in Pixels :
               (current = "l" /\ firstCLick /\ last' = "left press" /\ LeftPress(px)) =>
                   (~firstCLick' /\ startPoint' = startPoint)]_vars

C30_Witness ==
    /\ last = "left press"
    /\ current = "l"
    /\ firstCLick
    /\ Len(lines) = 4
    /\ startPoint = points[2]
    /\ startPoint # points[1]

\* z-component of (q - p) x (r - p): zero exactly when p, q and r are collinear
Turn(p, q, r) ==
    Sub(Mul(Sub(q[1], p[1]), Sub(r[2], p[2])),
        Mul(Sub(q[2], p[2]), Sub(r[1], p[1])))

\* z-component of (q - p) x (s - r): zero exactly when pq and rs are parallel
Slant(p, q, r, s) ==
    Sub(Mul(Sub(q[1], p[1]), Sub(s[2], r[2])),
        Mul(Sub(q[2], p[2]), Sub(s[1], r[1])))

FiniteVec(p) == p[1][2] # 0 /\ p[2][2] # 0

\* C25: while a line selected by a left press in MoveLine mode is dragged
\* (the drag line is the stored line at idx) and its two defining points are
\* finite with different x-coordinates, after a motion event at world position q the
\* stored line is a proper line through q, parallel to the stored line before
\* the event, with p3 = p1 and p4 = p2; this covers every motion of every
\* press-drag-release cycle.
C25_DragPassesThroughCursor ==
    [][\A px \in DragMotionPixels :
         (/\ current = "m"
          /\ drag = "dragging"
          /\ idx # -1
          /\ moved.p1 = At(lines, idx)
          /\ moved.p2 = At(lines, idx + 1)
          /\ FiniteVec(At(lines, idx)) /\ FiniteVec(At(lines, idx + 1))
          /\ Neq(At(lines, idx)[1], At(lines, idx + 1)[1])
          /\ last' = "none"
          /\ onMouseMotion(px[1], px[2])) =>
             /\ FiniteVec(At(lines', idx)) /\ FiniteVec(At(lines', idx + 1))
             /\ Neq(At(lines', idx)[1], At(lines', idx + 1)[1])
             /\ Eq(Turn(At(lines', idx), At(lines', idx + 1), World(px[1], px[2])), R(0))
             /\ Eq(Slant(At(lines', idx), At(lines', idx + 1),
                         At(lines, idx), At(lines, idx + 1)), R(0))
             /\ At(lines', idx + 2) = At(lines', idx)
             /\ At(lines', idx + 3) = At(lines', idx + 1)]_vars

\* a second drag of the line y = 0: moved was rebuilt from the entries a first
\* drag stored, and the line now passes through (0.2, 0.3)
C25_Witness ==
    /\ current = "m"
    /\ drag = "dragging"
    /\ last = "none"
    /\ idx = 0
    /\ Eq(moved.b, R(-2))
    /\ lines[1] = vec3(R(-1), Q(3, 10), R(1))
    /\ lines[2] = vec3(R(1), Q(3, 10), R(1))
    /\ lines[3] = lines[1]
    /\ lines[4] = lines[2]

\* C28: the point added by the second Intersect selection lies on both
\* selected lines as they are stored at that moment, when those stored lines
\* have finite entries and are not parallel.
C28_IntersectionOnStoredLines ==
    [][\A px \in DragPixels :
         (/\ current = "i"
          /\ firstLine
          /\ sel[1] # -1
          /\ last' = "left press"
          /\ Len(points') = Len(points) + 1
          /\ LeftPress(px)) =>
             LET first == Line(At(lines, sel[1]), At(lines, sel[1] + 1))
                 second == Line(At(lines, sel'[2]), At(lines, sel'[2] + 1))
                 new == points'[Len(points')]
             IN  (/\ \A k \in 0..3 : FiniteVec(At(lines, sel[1] + k))
                  /\ \A k \in 0..3 : FiniteVec(At(lines, sel'[2] + k))
                  /\ Neq(Det(first, second), R(0))) =>
                     (OnLine(first, new) /\ OnLine(second, new))]_vars

\* C29: a motion event in MoveLine mode with idx # -1 changes, of the program
\* state, only the drag line and the storage entries idx .. idx + 3, leaving
\* entry idx + 2 equal to entry idx and entry idx + 3 equal to entry idx + 1;
\* a motion event in any other mode changes nothing.
C29_MotionFrame ==
    [][\A px \in DragMotionPixels :
         /\ (current = "m" /\ idx # -1 /\ last' = "none" /\ onMouseMotion(px[1], px[2])) =>
                /\ Len(lines') = Len(lines)
                /\ \A k \in 0..(Len(lines) - 1) :
                     (k < idx \/ k > idx + 3) => At(lines', k) = At(lines, k)
                /\ At(lines', idx + 2) = At(lines', idx)
                /\ At(lines', idx + 3) = At(lines', idx + 1)
                /\ UNCHANGED <<points, current, firstCLick, startPoint, firstLine,
                               l1, l2, idx>>
         /\ (current # "m" /\ last' = "none" /\ onMouseMotion(px[1], px[2])) =>
                UNCHANGED Program]_vars

\* the second stored line was dragged, the first is as it was drawn
C29_Witness ==
    /\ current = "m"
    /\ last = "none"
    /\ idx = 4
    /\ drag = "dragging"
    /\ lines[5] = moved.p1
    /\ lines[6] = moved.p2
    /\ lines[7] = lines[5]
    /\ lines[8] = lines[6]
    /\ SubSeq(lines, 1, 4) = SubSeq(addLine(<<>>, Line(Origin, OnX)), 1, 4)

\* C23: a display event leaves the registries, the mode and the gesture
\* state unchanged and issues one GL_LINES call over the line storage and one
\* GL_POINTS call over the point registry; a display event that follows a
\* display event with no input event between issues the same draw calls.
C23_DisplayReadOnlyIdempotent ==
    [][(frame' # <<>> /\ onDisplay) =>
          /\ UNCHANGED Program
          /\ UNCHANGED <<pc, drag, sel>>
          /\ Len(frame') = 2
          /\ frame'[1].type = "GL_LINES" /\ frame'[1].positions = lines
          /\ frame'[2].type = "GL_POINTS" /\ frame'[2].positions = points
          /\ (frame # <<>>) => (frame' = frame)]_vars

\* a frame displayed while a line is dragged
C23_Witness ==
    /\ frame # <<>>
    /\ frame[1].count = 4
    /\ frame[2].count = 2
    /\ frame[1].positions[3] = frame[1].positions[1]
    /\ current = "m"
    /\ drag = "dragging"

\* the record of the line through (-0.5,-0.5) and (0.5,0.5)
DiagonalRecord(vtx, rec) ==
    (/\ vtx[Len(vtx) - 3] = vec3(Q(-1, 2), Q(-1, 2), R(1))
     /\ vtx[Len(vtx) - 2] = vec3(Q(1, 2), Q(1, 2), R(1))) =>
        /\ rec.a = R(1) /\ rec.b = R(-1) /\ rec.c = R(0)
        /\ rec.dx = R(1) /\ rec.dy = R(1)

\* C24 as stated: every line appended by addLine emits exactly one
\* line-created record whose coefficients a, b, c equal the constructed
\* Line's, with origin p1 and direction p2 - p1; for (-0.5,-0.5) then
\* (0.5,0.5) it is a = 1, b = -1, c = 0 with direction (1, 1).
C24_RecordEqualsLine ==
    [][(Len(lines') = Len(lines) + 4) =>
          LET p1 == lines'[Len(lines) + 1]
              p2 == lines'[Len(lines) + 2]
              l == Line(p1, p2)
          IN  /\ Len(record') = 1
              /\ record'[1].event = "line_added"
              /\ record'[1].a = l.a /\ record'[1].b = l.b /\ record'[1].c = l.c
              /\ record'[1].ox = p1[1] /\ record'[1].oy = p1[2]
              /\ record'[1].dx = Sub(p2[1], p1[1])
              /\ record'[1].dy = Sub(p2[2], p1[2])
              /\ DiagonalRecord(lines', record'[1])]_vars

\* C24: every line appended by addLine emits exactly one line-created record
\* whose numbers are the constructed Line's a, b, c, its origin p1 and its
\* direction p2 - p1, each rounded to two decimals; for (-0.5,-0.5) then
\* (0.5,0.5) it is a = 1, b = -1, c = 0 with direction (1, 1).
C24_RecordIsRoundedLine ==
    [][(Len(lines') = Len(lines) + 4) =>
          LET p1 == lines'[Len(lines) + 1]
              p2 == lines'[Len(lines) + 2]
              l == Line(p1, p2)
          IN  /\ Len(record') = 1
              /\ record'[1].event = "line_added"
              /\ record'[1].a = Fmt2(l.a)
              /\ record'[1].b = Fmt2(l.b)
              /\ record'[1].c = Fmt2(l.c)
              /\ record'[1].ox = Fmt2(p1[1]) /\ record'[1].oy = Fmt2(p1[2])
              /\ record'[1].dx = Fmt2(Sub(p2[1], p1[1]))
              /\ record'[1].dy = Fmt2(Sub(p2[2], p1[2]))
              /\ DiagonalRecord(lines', record'[1])]_vars

\* a record that differs from the line it reports: c = -0.0125 printed as -0.01
C24_Witness ==
    /\ Len(lines) = 4
    /\ Len(record) = 1
    /\ record[1].event = "line_added"
    /\ record[1].c = Q(-1, 100)
    /\ Line(lines[1], lines[2]).c = Q(-1, 80)

\* the segments a GL_LINES draw call renders: vertices 2k and 2k + 1 of the
\* first `count` positions form segment k
Segments(call) ==
    [k \in 1..(call.count \div 2) |->
        <<call.positions[2 * k - 1], call.positions[2 * k]>>]

\* C31 as stated: the line draw call of a frame contains exactly one segment
\* per stored line, between its render endpoints p3 and p4, in cyan, and the
\* point draw call contains exactly the stored points, in red.
C31_OneSegmentPerLine ==
    (frame # <<>>) =>
        /\ frame[1].type = "GL_LINES"
        /\ frame[1].color = <<0, 1, 1>>
        /\ Len(Segments(frame[1])) = Len(lines) \div 4
        /\ \A k \in 1..(Len(lines) \div 4) :
             Segments(frame[1])[k] = <<lines[4 * k - 1], lines[4 * k]>>
        /\ frame[2].type = "GL_POINTS"
        /\ frame[2].color = <<1, 0, 0>>
        /\ frame[2].count = Len(points)
        /\ frame[2].positions = points

\* C31: the line draw call of a frame contains two segments per stored line,
\* one between its defining points p1 and p2 and one between its render
\* endpoints p3 and p4, in cyan, and the point draw call contains exactly the
\* stored points, in red.
C31_TwoSegmentsPerLine ==
    (frame # <<>>) =>
        /\ frame[1].type = "GL_LINES"
        /\ frame[1].color = <<0, 1, 1>>
        /\ Len(Segments(frame[1])) = 2 * (Len(lines) \div 4)
        /\ \A k \in 1..(Len(lines) \div 4) :
             /\ Segments(frame[1])[2 * k - 1] = <<lines[4 * k - 3], lines[4 * k - 2]>>
             /\ Segments(frame[1])[2 * k] = <<lines[4 * k - 1], lines[4 * k]>>
        /\ frame[2].type = "GL_POINTS"
        /\ frame[2].color = <<1, 0, 0>>
        /\ frame[2].count = Len(points)
        /\ frame[2].positions = points

\* a frame showing a line as drawn: its defining segment differs from its
\* render segment
C31_Witness ==
    /\ frame # <<>>
    /\ Len(lines) = 4
    /\ Len(Segments(frame[1])) = 2
    /\ Segments(frame[1])[1] # Segments(frame[1])[2]
    /\ frame[2].count = 2
    /\ current = "l"

\* storage indices of the lines whose defining points are those of l, in
\* either order
Matches(vtx, l) ==
    {i \in 0..(Len(vtx) - 1) :
        /\ i % 4 = 0
        /\ \/ <<At(vtx, i)[1], At(vtx, i)[2], At(vtx, i + 1)[1], At(vtx, i + 1)[2]>> =
                  <<l.p1[1], l.p1[2], l.p2[1], l.p2[2]>>
           \/ <<At(vtx, i)[1], At(vtx, i)[2], At(vtx, i + 1)[1], At(vtx, i + 1)[2]>> =
                  <<l.p2[1], l.p2[2], l.p1[1], l.p1[2]>>}

\* C32: index(l) returns the storage index of the first stored line whose
\* entries i and i + 1 equal l's (p1, p2) or (p2, p1) in x and y, returns -1
\* when no stored line matches, and changes no state.
C32_IndexIsFirstMatch ==
    /\ [](qOp = "index" =>
            IF Matches(lines, qLine) = {} THEN qIdx = -1
            ELSE /\ qIdx \in Matches(lines, qLine)
                 /\ \A i \in Matches(lines, qLine) : qIdx <= i)
    /\ [][(qOp' = "index" /\ qOp # "index") => UNCHANGED <<uiVars, outVars>>]_vars

\* the same line stored twice, in both orders, and found at index 0 from the
\* reversed pair
C32_Witness ==
    /\ qOp = "index"
    /\ Len(lines) = 8
    /\ lines[1] # lines[2]
    /\ lines[5] = lines[2]
    /\ lines[6] = lines[1]
    /\ qLine.p1 = lines[2]
    /\ qLine.p2 = lines[1]
    /\ qIdx = 0

\* C33: startDrawing(q) called while a start is pending raises no error,
\* keeps the pending flag set, replaces the remembered start with q and adds
\* no line; the finishDrawing(r) that follows appends exactly the four
\* entries of the line constructed from q and r.
C33_RestartOverwritesStart ==
    /\ [][\A q \in RegPts :
            (firstCLick /\ RStartDrawing(q)) =>
                /\ firstCLick'
                /\ startPoint' = q
                /\ lines' = lines
                /\ pc' = "run"
                /\ ~oob']_vars
    /\ [][\A r \in RegPts :
            (restarted /\ RFinishDrawing(r)) =>
                /\ lines' = lines \o <<qPos, r, Line(qPos, r).p3, Line(qPos, r).p4>>
                /\ ~firstCLick']_vars

\* a start that replaced a different pending start
C33_Witness ==
    /\ restarted
    /\ firstCLick
    /\ qOp = "startDrawing"
    /\ startPoint = vec3(Q(1, 2), Q(1, 2), R(1))
    /\ Len(lines) = 4

====
